---- MODULE Spec2Model ----
(***************************************************************************)
(* A model of the ExpenseTracker: the keyword filter of a TrackerSection,  *)
(* the section's clear and write on a worksheet, the Transactions          *)
(* classifier and the IncomeExpenseTracker's registry and update cycle.    *)
(*                                                                         *)
(* Text is a sequence of one-character strings.  A worksheet is a function *)
(* from cells <<row, column>> to cell values.  A DataFrame is a sequence   *)
(* of rows in index order.                                                 *)
(***************************************************************************)
EXTENDS Integers, Sequences, FiniteSets, TLC

VARIABLES
  sections,      \* IncomeExpenseTracker.__sections, in insertion order
  sheet,         \* the cells of IncomeExpenseTracker.__xl_worksheet (in memory)
  disk,          \* the cells of the workbook file as last saved
  transactions,  \* IncomeExpenseTracker.__transactions and its fields
  source,        \* what the flat files hold, as the DAO would return it
  closed,        \* close_tracker has been called
  last,          \* the last call made on the tracker and how it ended
  probe,         \* the arguments of a call made on a section alone
  result,        \* what that call returned
  tie_order      \* how this build's sort_values orders rows of equal date

vars ==
  <<sections, sheet, disk, transactions, source, closed, last, probe, result, tie_order>>

-----------------------------------------------------------------------------
(* Bounds of the model *)

MaxRow == 2        \* the worksheet rows a section may span
MaxCol == 3        \* the worksheet columns a section may span
MaxTextLen == 2    \* the longest description the filter is probed with
MaxKeywords == 2   \* the longest keyword list the filter is probed with
MaxExceptions == 1 \* the longest exception list the filter is probed with

-----------------------------------------------------------------------------
(* Text: str.upper and the substring test `kw in text` *)

LowerCase == <<"a","b","c","d","e","f","g","h","i","j","k","l","m",
               "n","o","p","q","r","s","t","u","v","w","x","y","z">>
UpperCase == <<"A","B","C","D","E","F","G","H","I","J","K","L","M",
               "N","O","P","Q","R","S","T","U","V","W","X","Y","Z">>

UpperChar(c) ==
  IF \E i \in 1..Len(LowerCase) : LowerCase[i] = c
  THEN UpperCase[CHOOSE i \in 1..Len(LowerCase) : LowerCase[i] = c]
  ELSE c

Upper(text) == [i \in 1..Len(text) |-> UpperChar(text[i])]

\* Python's `kw in text`: kw occurs in text as a contiguous run (the empty
\* string occurs in every text).
In(kw, text) ==
  \E i \in 0..(Len(text) - Len(kw)) : SubSeq(text, i + 1, i + Len(kw)) = kw

-----------------------------------------------------------------------------
(* TrackerSection *)

TrxTypes == {"expense", "income"}

\* TrackerSection.__init__: the section built from the arguments, or the
\* InvalidTrxType error.  keyword_exceptions = None becomes the empty list.
NewTrackerSection(a) ==
  IF a.trx_type \notin TrxTypes
  THEN [err |-> "InvalidTrxType", section |-> <<>>]
  ELSE [err |-> "ok",
        section |-> <<[name |-> a.name,
                       trx_type |-> a.trx_type,
                       keywords |-> a.keywords,
                       min_row |-> a.min_row,
                       max_row |-> a.max_row,
                       min_col |-> a.min_col,
                       max_col |-> a.max_col,
                       keyword_exceptions |->
                         IF a.exceptions_given THEN a.keyword_exceptions ELSE <<>>,
                       is_inverse_section |-> a.is_inverse_section]>>]

\* __trx_filter with the exceptions of a non-inverse section left out.
TrxFilterIgnoresExceptions(s, text) ==
  LET upper == Upper(text)
  IN IF s.is_inverse_section
     THEN IF Len(s.keyword_exceptions) = 0
          THEN \A i \in 1..Len(s.keywords) : ~In(s.keywords[i], upper)
          ELSE (\A i \in 1..Len(s.keywords) : ~In(s.keywords[i], upper))
               \/ (\E j \in 1..Len(s.keyword_exceptions) :
                     In(s.keyword_exceptions[j], upper))
     ELSE \E i \in 1..Len(s.keywords) : In(s.keywords[i], upper)

\* __trx_filter with the exceptions of an inverse section excluding, as they
\* do in a non-inverse one.
TrxFilterInverseAnd(s, text) ==
  LET upper == Upper(text)
  IN IF s.is_inverse_section
     THEN (\A i \in 1..Len(s.keywords) : ~In(s.keywords[i], upper))
          /\ (\A j \in 1..Len(s.keyword_exceptions) :
                ~In(s.keyword_exceptions[j], upper))
     ELSE (\E i \in 1..Len(s.keywords) : In(s.keywords[i], upper))
          /\ (\A j \in 1..Len(s.keyword_exceptions) :
                ~In(s.keyword_exceptions[j], upper))

\* __trx_filter with an inverse section that has no exceptions keeping the
\* descriptions that lack some keyword, not those that lack every keyword.
TrxFilterInverseAny(s, text) ==
  LET upper == Upper(text)
  IN IF s.is_inverse_section
     THEN IF Len(s.keyword_exceptions) = 0
          THEN \E i \in 1..Len(s.keywords) : ~In(s.keywords[i], upper)
          ELSE (\A i \in 1..Len(s.keywords) : ~In(s.keywords[i], upper))
               \/ (\E j \in 1..Len(s.keyword_exceptions) :
                     In(s.keyword_exceptions[j], upper))
     ELSE IF Len(s.keyword_exceptions) = 0
          THEN \E i \in 1..Len(s.keywords) : In(s.keywords[i], upper)
          ELSE (\E i \in 1..Len(s.keywords) : In(s.keywords[i], upper))
               /\ (\A j \in 1..Len(s.keyword_exceptions) :
                     ~In(s.keyword_exceptions[j], upper))

\* __trx_filter with a section that is not inverse keeping the descriptions
\* that hold every keyword, not those that hold some keyword.
TrxFilterAllKeywords(s, text) ==
  LET upper == Upper(text)
  IN IF s.is_inverse_section
     THEN IF Len(s.keyword_exceptions) = 0
          THEN \A i \in 1..Len(s.keywords) : ~In(s.keywords[i], upper)
          ELSE (\A i \in 1..Len(s.keywords) : ~In(s.keywords[i], upper))
               \/ (\E j \in 1..Len(s.keyword_exceptions) :
                     In(s.keyword_exceptions[j], upper))
     ELSE IF Len(s.keyword_exceptions) = 0
          THEN \A i \in 1..Len(s.keywords) : In(s.keywords[i], upper)
          ELSE (\A i \in 1..Len(s.keywords) : In(s.keywords[i], upper))
               /\ (\A j \in 1..Len(s.keyword_exceptions) :
                     ~In(s.keyword_exceptions[j], upper))

\* TrackerSection.__trx_filter, applied to one description.
TrxFilter(s, text) ==
  LET upper == Upper(text)
  IN IF s.is_inverse_section
     THEN IF Len(s.keyword_exceptions) = 0
          THEN \A i \in 1..Len(s.keywords) : ~In(s.keywords[i], upper)
          ELSE (\A i \in 1..Len(s.keywords) : ~In(s.keywords[i], upper))
               \/ (\E j \in 1..Len(s.keyword_exceptions) :
                     In(s.keyword_exceptions[j], upper))
     ELSE IF Len(s.keyword_exceptions) = 0
          THEN \E i \in 1..Len(s.keywords) : In(s.keywords[i], upper)
          ELSE (\E i \in 1..Len(s.keywords) : In(s.keywords[i], upper))
               /\ (\A j \in 1..Len(s.keyword_exceptions) :
                     ~In(s.keyword_exceptions[j], upper))

\* __eq__ with is_inverse_section left out of the comparison.
SectionEqIgnoresInverse(s, o) ==
  /\ s.name = o.name /\ s.trx_type = o.trx_type
  /\ s.min_row = o.min_row /\ s.max_row = o.max_row
  /\ s.min_col = o.min_col /\ s.max_col = o.max_col
  /\ s.keywords = o.keywords /\ s.keyword_exceptions = o.keyword_exceptions

\* TrackerSection.__eq__: lists compare element by element, in order.
SectionEq(s, o) ==
  /\ s.name = o.name /\ s.trx_type = o.trx_type
  /\ s.min_row = o.min_row /\ s.max_row = o.max_row
  /\ s.min_col = o.min_col /\ s.max_col = o.max_col
  /\ s.keywords = o.keywords /\ s.keyword_exceptions = o.keyword_exceptions
  /\ s.is_inverse_section = o.is_inverse_section

-----------------------------------------------------------------------------
(* Worksheet cells *)

\* A cell value: empty (None), a date, a text or a number.
NoneValue == [t |-> "none", n |-> 0, s |-> <<>>]
DateValue(d) == [t |-> "date", n |-> d, s |-> <<>>]
TextValue(x) == [t |-> "text", n |-> 0, s |-> x]
NumValue(a) == [t |-> "num", n |-> a, s |-> <<>>]

\* AS_OF_DATE_CELL = "T1": column T is the 20th, row 1.
AsOfRow == 1
AsOfCol == 20
AsOfCell == <<AsOfRow, AsOfCol>>

\* The cells the model keeps: the grid sections may span, one more column
\* (the description goes to min_col + 1) and the as-of cell.
Cells == ((1..MaxRow) \X (1..(MaxCol + 1))) \cup {AsOfCell}

\* worksheet[cell] = value
SetCell(ws, c, v) == [x \in (DOMAIN ws) \cup {c} |-> IF x = c THEN v ELSE ws[x]]

\* The cells iter_rows(min_row, min_col, max_row, max_col) yields.
Rect(s) == (s.min_row..s.max_row) \X (s.min_col..s.max_col)

\* clear_contents emptying the rows of the section in every column.
ClearContentsWholeRows(ws, s) ==
  [x \in (DOMAIN ws) \cup Rect(s) |->
     IF x[1] \in s.min_row..s.max_row /\ s.min_col <= s.max_col THEN NoneValue ELSE ws[x]]

\* TrackerSection.clear_contents
ClearContents(ws, s) ==
  [x \in (DOMAIN ws) \cup Rect(s) |-> IF x \in Rect(s) THEN NoneValue ELSE ws[x]]

\* transactions.loc[list(map(self.__trx_filter(), transactions['Description'])), :]
\* followed by reset_index: the rows that pass, in order.
RECURSIVE FilterRows(_, _)
FilterRows(s, trx) ==
  IF trx = <<>> THEN <<>>
  ELSE IF TrxFilter(s, Head(trx).description)
       THEN <<Head(trx)>> \o FilterRows(s, Tail(trx))
       ELSE FilterRows(s, Tail(trx))

\* chr(64 + col) in a cell reference: the letters A..Z name the columns
\* 1..26 and the letters a..z (col 33..58) name them again; any other
\* character names no column (0), and the reference is refused.
ColumnOf(col) ==
  IF col \in 1..26 THEN col
  ELSE IF col \in 33..58 THEN col - 32
  ELSE 0

\* The loop of write_data over section_trx.iterrows(), from row idx on: the
\* date, then the description, then the amount of each row, until a cell
\* reference is refused.
RECURSIVE WriteRows(_, _, _, _)
WriteRows(ws, s, section_trx, idx) ==
  IF idx >= Len(section_trx) THEN [err |-> "ok", ws |-> ws]
  ELSE LET row == section_trx[idx + 1]
           date_column == ColumnOf(s.min_col)
           desc_column == ColumnOf(s.min_col + 1)
           amt_column == ColumnOf(s.max_col)
           w1 == SetCell(ws, <<s.min_row + idx, date_column>>, DateValue(row.posting_date))
           w2 == SetCell(w1, <<s.min_row + idx, desc_column>>, TextValue(row.description))
           w3 == SetCell(w2, <<s.min_row + idx, amt_column>>, NumValue(row.amount))
       IN IF date_column = 0 THEN [err |-> "ValueError", ws |-> ws]
          ELSE IF desc_column = 0 THEN [err |-> "ValueError", ws |-> w1]
          ELSE IF amt_column = 0 THEN [err |-> "ValueError", ws |-> w2]
          ELSE WriteRows(w3, s, section_trx, idx + 1)

\* TrackerSection.write_data: the worksheet after the call and how it ended.
WriteData(ws, s, trx) ==
  LET section_trx == FilterRows(s, trx)
  IN IF Len(section_trx) > (s.max_row - s.min_row + 1)
     THEN [err |-> "InsufficientTrackerSectionSize", ws |-> ws]
     ELSE WriteRows(ws, s, section_trx, 0)

-----------------------------------------------------------------------------
(* Transactions *)

\* tracker.resources.CREDIT_CARD_KEYWORDS, as the configuration gives it.
CREDIT_CARD_KEYWORDS == << <<"P","A","Y","M","E","N","T">> >>

\* pd.DataFrame(): no columns, no rows.
EmptyFrame == [has_columns |-> FALSE, rows |-> <<>>]

\* The date as_of_date holds before any classification (datetime.now());
\* posting dates are 1, 2, ...
NowDate == 0

\* Transactions.__init__
NewTransactions ==
  [created |-> TRUE,
   checking_acct_trx |-> EmptyFrame,
   credit_card_trx |-> EmptyFrame,
   income |-> <<>>,
   expenses |-> <<>>,
   as_of_date |-> NowDate]

\* IncomeExpenseTracker.__transactions = None
NoTransactions == [NewTransactions EXCEPT !.created = FALSE]

\* The projection of a raw row to (Posting Date, Description, Amount).
Project(r) ==
  [posting_date |-> r.posting_date, description |-> r.description, amount |-> r.amount]

\* The selection keeping one row of several alike (a drop_duplicates).
RECURSIVE SelectFlagDistinct(_, _)
SelectFlagDistinct(rows, flag) ==
  IF rows = <<>> THEN <<>>
  ELSE LET n == Len(rows)
           before == SelectFlagDistinct(SubSeq(rows, 1, n - 1), flag)
       IN IF rows[n].flag = flag /\ \A i \in 1..(n - 1) : rows[i] # rows[n]
          THEN Append(before, Project(rows[n]))
          ELSE before

\* frame.loc[frame[column] == flag, column_selection]: the rows with the flag,
\* in order, projected.
RECURSIVE SelectFlag(_, _)
SelectFlag(rows, flag) ==
  IF rows = <<>> THEN <<>>
  ELSE IF Head(rows).flag = flag
       THEN <<Project(Head(rows))>> \o SelectFlag(Tail(rows), flag)
       ELSE SelectFlag(Tail(rows), flag)

\* The lambda of paying_off_cc_filter: the description holds none of the
\* keywords.
HoldsNoKeyword(keywords, trx_desc) ==
  \A i \in 1..Len(keywords) : ~In(keywords[i], Upper(trx_desc))

\* paying_off_cc_filter: the rows whose description holds no credit-card keyword.
NotPayingOffCc(r) == HoldsNoKeyword(CREDIT_CARD_KEYWORDS, r.description)

RECURSIVE DropCcPayments(_)
DropCcPayments(rows) ==
  IF rows = <<>> THEN <<>>
  ELSE IF NotPayingOffCc(Head(rows))
       THEN <<Head(rows)>> \o DropCcPayments(Tail(rows))
       ELSE DropCcPayments(Tail(rows))

\* sort_values(by=['Posting Date'], ignore_index=True) sorts with the default
\* kind, quicksort, which is not a stable sort: the rows come out ascending
\* by date, and rows of equal date in an order the build decides, the same
\* at every call: the order they had, or the other way round.
TieOrders == {"kept", "reversed"}

RECURSIVE InsertByDate(_, _)
InsertByDate(sorted, r) ==
  IF sorted = <<>> THEN <<r>>
  ELSE IF \/ Head(sorted).posting_date < r.posting_date
          \/ (Head(sorted).posting_date = r.posting_date /\ tie_order = "kept")
       THEN <<Head(sorted)>> \o InsertByDate(Tail(sorted), r)
       ELSE <<r>> \o sorted

RECURSIVE SortByDate(_)
SortByDate(rows) ==
  IF rows = <<>> THEN <<>>
  ELSE InsertByDate(SortByDate(SubSeq(rows, 1, Len(rows) - 1)), rows[Len(rows)])

\* __separate_income_from_expenses adding the month's rows to the expenses
\* and the income of the call before.
SeparateIncomeFromExpensesAccumulates(t) ==
  LET checking == t.checking_acct_trx
      cc == t.credit_card_trx
  IN IF ~checking.has_columns \/ ~cc.has_columns
     THEN [err |-> "SystemExit", t |-> t]
     ELSE LET checking_expenses == DropCcPayments(SelectFlag(checking.rows, "DEBIT"))
              cc_expenses == SelectFlag(cc.rows, "Sale")
              t1 == [t EXCEPT !.expenses = SortByDate(@ \o checking_expenses \o cc_expenses),
                              !.income = @ \o SelectFlag(checking.rows, "CREDIT")]
          IN IF checking.rows = <<>> \/ cc.rows = <<>>
             THEN [err |-> "IndexError", t |-> t1]
             ELSE LET checking_latest_date == checking.rows[Len(checking.rows)].posting_date
                      cc_latest_date == cc.rows[Len(cc.rows)].posting_date
                  IN [err |-> "ok",
                      t |-> [t1 EXCEPT !.as_of_date =
                               IF checking_latest_date > cc_latest_date
                               THEN checking_latest_date ELSE cc_latest_date]]

\* __separate_income_from_expenses taking the as-of date from the checking
\* account alone.
SeparateIncomeFromExpensesAsOfChecking(t) ==
  LET checking == t.checking_acct_trx
      cc == t.credit_card_trx
  IN IF ~checking.has_columns \/ ~cc.has_columns
     THEN [err |-> "SystemExit", t |-> t]
     ELSE LET checking_expenses == DropCcPayments(SelectFlag(checking.rows, "DEBIT"))
              cc_expenses == SelectFlag(cc.rows, "Sale")
              t1 == [t EXCEPT !.expenses = SortByDate(checking_expenses \o cc_expenses),
                              !.income = SelectFlag(checking.rows, "CREDIT")]
          IN IF checking.rows = <<>> \/ cc.rows = <<>>
             THEN [err |-> "IndexError", t |-> t1]
             ELSE [err |-> "ok",
                   t |-> [t1 EXCEPT !.as_of_date =
                            checking.rows[Len(checking.rows)].posting_date]]

\* Transactions.__separate_income_from_expenses: a missing column is a
\* KeyError, which ends in sys.exit; iloc[-1] on a frame without rows is an
\* IndexError, raised after the expenses and the income were assigned.
SeparateIncomeFromExpenses(t) ==
  LET checking == t.checking_acct_trx
      cc == t.credit_card_trx
  IN IF ~checking.has_columns \/ ~cc.has_columns
     THEN [err |-> "SystemExit", t |-> t]
     ELSE LET checking_expenses == DropCcPayments(SelectFlag(checking.rows, "DEBIT"))
              cc_expenses == SelectFlag(cc.rows, "Sale")
              t1 == [t EXCEPT !.expenses = SortByDate(checking_expenses \o cc_expenses),
                              !.income = SelectFlag(checking.rows, "CREDIT")]
          IN IF checking.rows = <<>> \/ cc.rows = <<>>
             THEN [err |-> "IndexError", t |-> t1]
             ELSE LET checking_latest_date == checking.rows[Len(checking.rows)].posting_date
                      cc_latest_date == cc.rows[Len(cc.rows)].posting_date
                  IN [err |-> "ok",
                      t |-> [t1 EXCEPT !.as_of_date =
                               IF checking_latest_date > cc_latest_date
                               THEN checking_latest_date ELSE cc_latest_date]]

\* Transactions.get_transactions_for_the_period against the files `src`
\* holds: a TransactionDataPullError of either pull ends in sys.exit.
GetTransactionsForThePeriod(t, src) ==
  IF src.checking.pull_error
  THEN [err |-> "SystemExit", t |-> t]
  ELSE LET t1 == [t EXCEPT !.checking_acct_trx = src.checking.frame]
       IN IF src.credit_card.pull_error
          THEN [err |-> "SystemExit", t |-> t1]
          ELSE SeparateIncomeFromExpenses(
                 [t1 EXCEPT !.credit_card_trx = src.credit_card.frame])

-----------------------------------------------------------------------------
(* IncomeExpenseTracker: the registry of sections *)

Names(secs) == {secs[i].name : i \in 1..Len(secs)}

\* The position of the section registered under `name`.
IndexOf(secs, name) == CHOOSE i \in 1..Len(secs) : secs[i].name = name

\* add_section without the check of the name: the new section takes the
\* place of the one registered under it.
AddSectionOverwrites(secs, a) ==
  LET new == NewTrackerSection(a)
  IN IF new.err # "ok"
     THEN [err |-> new.err, secs |-> secs]
     ELSE IF a.name \in Names(secs)
          THEN [err |-> "ok", secs |-> [secs EXCEPT ![IndexOf(secs, a.name)] = new.section[1]]]
          ELSE [err |-> "ok", secs |-> Append(secs, new.section[1])]

\* IncomeExpenseTracker.add_section
AddSection(secs, a) ==
  IF a.name \in Names(secs)
  THEN [err |-> "TrackerSectionAlreadyExists", secs |-> secs]
  ELSE LET new == NewTrackerSection(a)
       IN IF new.err # "ok"
          THEN [err |-> new.err, secs |-> secs]
          ELSE [err |-> "ok", secs |-> Append(secs, new.section[1])]

\* delete_section removing the section registered last, whatever its name.
DeleteSectionPopsLast(secs, name) ==
  IF name \notin Names(secs)
  THEN [err |-> "TrackerSectionDoesNotExist", secs |-> secs]
  ELSE [err |-> "ok", secs |-> SubSeq(secs, 1, Len(secs) - 1)]

\* IncomeExpenseTracker.delete_section
DeleteSection(secs, name) ==
  IF name \notin Names(secs)
  THEN [err |-> "TrackerSectionDoesNotExist", secs |-> secs]
  ELSE [err |-> "ok",
        secs |-> SubSeq(secs, 1, IndexOf(secs, name) - 1)
                 \o SubSeq(secs, IndexOf(secs, name) + 1, Len(secs))]

\* IncomeExpenseTracker.replace_section
ReplaceSection(secs, a) ==
  IF a.name \notin Names(secs)
  THEN [err |-> "TrackerSectionDoesNotExist", secs |-> secs]
  ELSE LET new == NewTrackerSection(a)
       IN IF new.err # "ok"
          THEN [err |-> new.err, secs |-> secs]
          ELSE IF SectionEq(new.section[1], secs[IndexOf(secs, a.name)])
               THEN [err |-> "ReplaceTrackerSectionError", secs |-> secs]
               ELSE [err |-> "ok",
                     secs |-> [secs EXCEPT ![IndexOf(secs, a.name)] = new.section[1]]]

-----------------------------------------------------------------------------
(* IncomeExpenseTracker: the update cycle *)

\* IncomeExpenseTracker.__clear_tracker_contents
RECURSIVE ClearSections(_, _)
ClearSections(ws, secs) ==
  IF secs = <<>> THEN ws
  ELSE ClearSections(ClearContents(ws, Head(secs)), Tail(secs))

ClearTrackerContents(ws, secs) ==
  ClearSections(SetCell(ws, AsOfCell, NoneValue), secs)

\* IncomeExpenseTracker.__get_transactions
GetTransactions(t, src) ==
  GetTransactionsForThePeriod(IF t.created THEN t ELSE NewTransactions, src)

\* The loop of __write_transaction_data_to_tracker: the first write_data
\* that raises ends it.
RECURSIVE WriteSections(_, _, _)
WriteSections(ws, secs, t) ==
  IF secs = <<>> THEN [err |-> "ok", ws |-> ws]
  ELSE LET trx == IF Head(secs).trx_type = "expense" THEN t.expenses ELSE t.income
           w == WriteData(ws, Head(secs), trx)
       IN IF w.err # "ok" THEN w ELSE WriteSections(w.ws, Tail(secs), t)

\* __write_transaction_data_to_tracker writing the as-of date once the
\* sections are written.
WriteTransactionDataToTrackerAsOfLast(ws, secs, t) ==
  LET w == WriteSections(ws, secs, t)
  IN IF w.err # "ok" THEN w
     ELSE [err |-> "ok", ws |-> SetCell(w.ws, AsOfCell, DateValue(t.as_of_date))]

\* IncomeExpenseTracker.__write_transaction_data_to_tracker
WriteTransactionDataToTracker(ws, secs, t) ==
  WriteSections(SetCell(ws, AsOfCell, DateValue(t.as_of_date)), secs, t)

\* update_tracker saving the workbook however the update ended (the save in
\* a finally clause).
UpdateTrackerSavesOnFailure(secs, ws, dsk, t, src) ==
  IF Len(secs) = 0
  THEN [err |-> "EmptyTrackerError", ws |-> ws, disk |-> dsk, t |-> t]
  ELSE LET cleared == ClearTrackerContents(ws, secs)
           got == GetTransactions(t, src)
       IN IF got.err # "ok"
          THEN [err |-> got.err, ws |-> cleared, disk |-> cleared, t |-> got.t]
          ELSE LET written == WriteTransactionDataToTracker(cleared, secs, got.t)
               IN [err |-> written.err, ws |-> written.ws, disk |-> written.ws, t |-> got.t]

\* update_tracker without the check for an empty registry.
UpdateTrackerNoEmptyCheck(secs, ws, dsk, t, src) ==
  LET cleared == ClearTrackerContents(ws, secs)
      got == GetTransactions(t, src)
  IN IF got.err # "ok"
     THEN [err |-> got.err, ws |-> cleared, disk |-> dsk, t |-> got.t]
     ELSE LET written == WriteTransactionDataToTracker(cleared, secs, got.t)
          IN IF written.err # "ok"
             THEN [err |-> written.err, ws |-> written.ws, disk |-> dsk, t |-> got.t]
             ELSE [err |-> "ok", ws |-> written.ws, disk |-> written.ws, t |-> got.t]

\* IncomeExpenseTracker.update_tracker: how the call ends, and the
\* worksheet, the saved workbook and the transactions after it.
UpdateTracker(secs, ws, dsk, t, src) ==
  IF Len(secs) = 0
  THEN [err |-> "EmptyTrackerError", ws |-> ws, disk |-> dsk, t |-> t]
  ELSE LET cleared == ClearTrackerContents(ws, secs)
           got == GetTransactions(t, src)
       IN IF got.err # "ok"
          THEN [err |-> got.err, ws |-> cleared, disk |-> dsk, t |-> got.t]
          ELSE LET written == WriteTransactionDataToTracker(cleared, secs, got.t)
               IN IF written.err # "ok"
                  THEN [err |-> written.err, ws |-> written.ws, disk |-> dsk, t |-> got.t]
                  ELSE [err |-> "ok", ws |-> written.ws, disk |-> written.ws, t |-> got.t]

-----------------------------------------------------------------------------
(* The inputs of the tracker model *)

KROGER == <<"K","R","O","G","E","R">>
SHELL == <<"S","H","E","L","L">>

\* The arguments of add_section and replace_section: one call, and the calls
\* that differ from it in one argument.
BaseArgs(name) ==
  [name |-> name, trx_type |-> "expense", keywords |-> <<KROGER, SHELL>>,
   min_row |-> 1, max_row |-> MaxRow, min_col |-> 1, max_col |-> MaxCol,
   exceptions_given |-> FALSE, keyword_exceptions |-> <<>>,
   is_inverse_section |-> FALSE]

ArgsLike(b) ==
  {b}
  \cup {[b EXCEPT !.trx_type = x] : x \in {"income", "transfer"}}
  \cup {[b EXCEPT !.keywords = x] : x \in {<<SHELL, KROGER>>, <<KROGER>>}}
  \cup {[b EXCEPT !.min_row = MaxRow], [b EXCEPT !.max_row = 1]}
  \cup {[b EXCEPT !.min_col = MaxCol], [b EXCEPT !.max_col = 2]}
  \cup {[b EXCEPT !.exceptions_given = TRUE, !.keyword_exceptions = x] :
          x \in {<<>>, <<SHELL>>}}
  \cup {[b EXCEPT !.is_inverse_section = TRUE]}

SectionNames == {"Rent", "Gas"}

\* The calls made on the registry alone.
SectionArgs == UNION {ArgsLike(BaseArgs(n)) : n \in SectionNames}

\* The calls made on a tracker that is also updated: expense and income
\* sections over rectangles that overlap or not, one of them reaching past
\* the last column a letter names.
TrackerArgs ==
  { BaseArgs("Rent"),
    [BaseArgs("Rent") EXCEPT !.max_row = 1, !.keyword_exceptions = <<SHELL>>,
                             !.exceptions_given = TRUE],
    [BaseArgs("Gas") EXCEPT !.trx_type = "income", !.is_inverse_section = TRUE,
                            !.min_row = MaxRow],
    [BaseArgs("Gas") EXCEPT !.keywords = <<SHELL>>, !.min_col = 26,
                            !.max_col = 27] }

\* The arguments recorded for a call that takes none but a name.
NameOnly(name) == [BaseArgs(name) EXCEPT !.trx_type = "", !.keywords = <<>>]

Row(flag, d, text, amt) ==
  [flag |-> flag, posting_date |-> d, description |-> text, amount |-> amt]

CheckingA ==
  << Row("DEBIT", 1, <<"K","r","o","g","e","r"," ","1","2">>, -5),
     Row("DEBIT", 1, <<"P","a","y","m","e","n","t"," ","T","h","x">>, -50),
     Row("CREDIT", 2, <<"P","A","Y","R","O","L","L">>, 90) >>

CreditCardA ==
  << Row("Sale", 1, <<"S","H","E","L","L"," ","O","I","L">>, -3),
     Row("Payment", 2, <<"P","A","Y","M","E","N","T">>, 50) >>

CheckingB == CheckingA \o << Row("DEBIT", 3, <<"k","r","o","g","e","r"," ","s","h","e","l","l">>, -7) >>

Pulled(rows) == [pull_error |-> FALSE, frame |-> [has_columns |-> TRUE, rows |-> rows]]
PullFails == [pull_error |-> TRUE, frame |-> EmptyFrame]
LacksColumn(rows) == [pull_error |-> FALSE, frame |-> [has_columns |-> FALSE, rows |-> rows]]

\* What the two flat files of the month may hold.
Sources ==
  { [checking |-> Pulled(CheckingA), credit_card |-> Pulled(CreditCardA)],
    [checking |-> Pulled(CheckingB), credit_card |-> Pulled(CreditCardA)],
    [checking |-> PullFails, credit_card |-> Pulled(CreditCardA)],
    [checking |-> Pulled(CheckingB), credit_card |-> PullFails],
    [checking |-> Pulled(CheckingA), credit_card |-> LacksColumn(CreditCardA)],
    [checking |-> Pulled(CheckingB), credit_card |-> Pulled(<<>>)] }

\* The worksheet as load_workbook may find it: empty, or holding earlier
\* entries in every cell.
BlankSheet == [c \in Cells |-> NoneValue]
StaleSheet == [c \in Cells |-> IF c = AsOfCell THEN DateValue(9) ELSE TextValue(<<"o","l","d">>)]

-----------------------------------------------------------------------------
(* The tracker as a state machine *)

NoProbe == [op |-> "none"]

\* The record of a call: its name, its arguments, the error it raised ("ok"
\* for none) and whether it repeats a successful update_tracker.
Called(op, args, err, again) == [op |-> op, args |-> args, err |-> err, again |-> again]

Init ==
  /\ sections = <<>>
  /\ sheet = StaleSheet
  /\ disk = sheet
  /\ transactions = NoTransactions
  /\ source \in Sources
  /\ closed = FALSE
  /\ last = Called("init", NameOnly(""), "ok", FALSE)
  /\ probe = NoProbe
  /\ result = NoProbe
  /\ tie_order \in TieOrders

add_section(a) ==
  /\ sections' = AddSection(sections, a).secs
  /\ last' = Called("add_section", a, AddSection(sections, a).err, FALSE)
  /\ UNCHANGED <<sheet, disk, transactions, source, closed, probe, result, tie_order>>

replace_section(a) ==
  /\ sections' = ReplaceSection(sections, a).secs
  /\ last' = Called("replace_section", a, ReplaceSection(sections, a).err, FALSE)
  /\ UNCHANGED <<sheet, disk, transactions, source, closed, probe, result, tie_order>>

delete_section(name) ==
  /\ sections' = DeleteSection(sections, name).secs
  /\ last' = Called("delete_section", NameOnly(name),
                    DeleteSection(sections, name).err, FALSE)
  /\ UNCHANGED <<sheet, disk, transactions, source, closed, probe, result, tie_order>>

update_tracker ==
  \E u \in {UpdateTracker(sections, sheet, disk, transactions, source)} :
     /\ sheet' = u.ws
     /\ disk' = u.disk
     /\ transactions' = u.t
     /\ last' = Called("update_tracker", NameOnly(""), u.err,
                       last.op = "update_tracker" /\ last.err = "ok")
     /\ UNCHANGED <<sections, source, closed, probe, result, tie_order>>

\* IncomeExpenseTracker.close_tracker: Workbook.close() releases the file
\* handle of a read-only or write-only workbook and changes nothing else.
close_tracker ==
  /\ closed' = TRUE
  /\ last' = Called("close_tracker", NameOnly(""), "ok", FALSE)
  /\ UNCHANGED <<sections, sheet, disk, transactions, source, probe, result, tie_order>>

\* A frame whose rows begin with the rows of another.
Extends(f, g) ==
  /\ f.has_columns /\ g.has_columns
  /\ Len(g.rows) <= Len(f.rows)
  /\ SubSeq(f.rows, 1, Len(g.rows)) = g.rows

\* The bank's exports of the month are downloaded again between two calls,
\* with the transactions posted since.
FilesGrow(src) ==
  /\ source # src
  /\ ~source.checking.pull_error /\ ~source.credit_card.pull_error
  /\ ~src.checking.pull_error /\ ~src.credit_card.pull_error
  /\ Extends(src.checking.frame, source.checking.frame)
  /\ Extends(src.credit_card.frame, source.credit_card.frame)
  /\ source' = src
  /\ last' = Called("files_grow", NameOnly(""), "ok", FALSE)
  /\ UNCHANGED <<sections, sheet, disk, transactions, closed, probe, result, tie_order>>

Next ==
  \/ \E a \in TrackerArgs : add_section(a)
  \/ \E a \in TrackerArgs : replace_section(a)
  \/ \E n \in SectionNames : delete_section(n)
  \/ update_tracker
  \/ close_tracker
  \/ \E src \in Sources : FilesGrow(src)

Spec == Init /\ [][Next]_vars

\* The registry alone, under every call of SectionArgs.
NextRegistry ==
  \/ \E a \in SectionArgs : add_section(a)
  \/ \E a \in SectionArgs : replace_section(a)
  \/ \E n \in SectionNames : delete_section(n)

InitRegistry ==
  /\ Init
  /\ source = (CHOOSE src \in Sources : TRUE)
  /\ tie_order = "kept"

SpecRegistry == InitRegistry /\ [][NextRegistry]_vars

-----------------------------------------------------------------------------
(* A section's filter, called alone *)

\* All sequences over S of length at most n.
RECURSIVE SeqsUpTo(_, _)
SeqsUpTo(S, n) ==
  IF n = 0 THEN {<<>>}
  ELSE SeqsUpTo(S, n - 1)
       \cup {Append(q, x) : q \in {r \in SeqsUpTo(S, n - 1) : Len(r) = n - 1}, x \in S}

Alphabet == {"K", "k", "S", "s"}
Texts == SeqsUpTo(Alphabet, MaxTextLen)
KeywordPool == {<<"K">>, <<"k">>, <<"S">>, <<"K","S">>}

\* A section with the given rule, over the rectangle of BaseArgs.
RuleSection(keywords, exceptions, inverse) ==
  [name |-> "Rent", trx_type |-> "expense", keywords |-> keywords,
   min_row |-> 1, max_row |-> MaxRow, min_col |-> 1, max_col |-> MaxCol,
   keyword_exceptions |-> exceptions, is_inverse_section |-> inverse]

InitFilter ==
  /\ probe \in [op : {"trx_filter"},
                section : {RuleSection(k, e, i) :
                             k \in SeqsUpTo(KeywordPool, MaxKeywords),
                             e \in SeqsUpTo(KeywordPool, MaxExceptions),
                             i \in BOOLEAN},
                text : Texts]
  /\ result = NoProbe
  /\ sections = <<>> /\ sheet = BlankSheet /\ disk = BlankSheet
  /\ transactions = NoTransactions
  /\ source = CHOOSE src \in Sources : TRUE
  /\ closed = FALSE
  /\ last = Called("init", NameOnly(""), "ok", FALSE)
  /\ tie_order = "kept"

\* self.__trx_filter()(text)
trx_filter ==
  /\ result = NoProbe
  /\ result' = [op |-> "trx_filter", value |-> TrxFilter(probe.section, probe.text)]
  /\ UNCHANGED <<sections, sheet, disk, transactions, source, closed, last, probe, tie_order>>

SpecFilter == InitFilter /\ [][trx_filter]_vars

-----------------------------------------------------------------------------
(* A section's clear_contents and write_data, called alone *)

MaxRecords == 3    \* the longest table a section is probed with

RecordPool ==
  { [posting_date |-> 1, description |-> <<"K","r">>, amount |-> -5],
    [posting_date |-> 2, description |-> <<"s","h">>, amount |-> -3],
    [posting_date |-> 2, description |-> <<"P","a","y">>, amount |-> 90] }

\* The columns sections are probed at: those of the grid, and the last
\* column a letter names with the one after it.
ProbeCols == (1..MaxCol) \cup {26, 27}

\* Sections over every rectangle of these rows and columns, numbered from 1
\* as a worksheet numbers them (a rectangle may end before it starts), each
\* with one of four rules.
ProbeSections ==
  { [RuleSection(r[1], r[2], r[3]) EXCEPT !.min_row = rows[1], !.max_row = rows[2],
                                          !.min_col = cols[1], !.max_col = cols[2]] :
      r \in { << <<<<"K">>, <<"S">> >>, <<>>, FALSE >>,
              << <<<<"K">>, <<"S">> >>, << <<"S">> >>, FALSE >>,
              << <<<<"K">> >>, <<>>, TRUE >>,
              << <<<<"K">> >>, << <<"K">> >>, TRUE >> },
      rows \in (1..MaxRow) \X (1..MaxRow),
      cols \in ProbeCols \X ProbeCols }

InitSection ==
  /\ probe \in [op : {"section"},
                ws : {BlankSheet, StaleSheet},
                section : ProbeSections,
                trx : SeqsUpTo(RecordPool, MaxRecords)]
  /\ result = NoProbe
  /\ sections = <<>> /\ sheet = BlankSheet /\ disk = BlankSheet
  /\ transactions = NoTransactions
  /\ source = CHOOSE src \in Sources : TRUE
  /\ closed = FALSE
  /\ last = Called("init", NameOnly(""), "ok", FALSE)
  /\ tie_order = "kept"

\* section.write_data(trx)
write_data ==
  /\ result = NoProbe
  /\ result' = [op |-> "write_data",
                err |-> WriteData(probe.ws, probe.section, probe.trx).err,
                ws |-> WriteData(probe.ws, probe.section, probe.trx).ws]
  /\ UNCHANGED <<sections, sheet, disk, transactions, source, closed, last, probe, tie_order>>

\* section.clear_contents()
clear_contents ==
  /\ result = NoProbe
  /\ result' = [op |-> "clear_contents", err |-> "ok",
                ws |-> ClearContents(probe.ws, probe.section)]
  /\ UNCHANGED <<sections, sheet, disk, transactions, source, closed, last, probe, tie_order>>

NextSection == write_data \/ clear_contents

SpecSection == InitSection /\ [][NextSection]_vars

-----------------------------------------------------------------------------
(* The classifier, called alone *)

MaxFileRows == 3   \* the most rows the checking file is probed with

\* The rows of the checking file: withdrawals (one of them paying off the
\* credit card), deposits (one alike a withdrawal in date, description and
\* amount, one naming a payment) and a row with another flag.
CheckingPool ==
  { Row("DEBIT", 1, <<"K">>, -5),
    Row("DEBIT", 2, <<"P","a","y","m","e","n","t">>, -50),
    Row("CREDIT", 1, <<"K">>, -5),
    Row("CREDIT", 2, <<"P","A","Y","M","E","N","T">>, 90),
    Row("CHECK", 3, <<"K">>, -1) }

\* The rows of the credit-card file: sales and a payment.
CreditCardPool ==
  { Row("Sale", 1, <<"S">>, -3),
    Row("Sale", 3, <<"K">>, -5),
    Row("Payment", 4, <<"P","A","Y","M","E","N","T">>, 50) }

\* The DAO given to Transactions: the flat-file one, which returns the rows
\* sorted by posting date, or another TransactionDAO, which returns them in
\* the order it has them.
Daos == {"FlatFileTransactionDAO", "TransactionDAO"}

Delivered(dao, rows) ==
  IF dao = "FlatFileTransactionDAO" THEN SortByDate(rows) ELSE rows

\* What a pull returns for a file: its rows, an error, or rows without a
\* column the classifier reads.
PullOutcomes(dao, pool, n) ==
  {Pulled(Delivered(dao, rows)) : rows \in SeqsUpTo(pool, n)}
  \cup {PullFails}
  \cup {LacksColumn(<<x>>) : x \in pool}

\* The Transactions object before the call: new, or holding the
\* classification of an earlier pull.
Classified ==
  GetTransactionsForThePeriod(
    NewTransactions,
    [checking |-> Pulled(CheckingA), credit_card |-> Pulled(CreditCardA)]).t

InitClassifier ==
  /\ tie_order \in TieOrders
  /\ \E dao \in Daos :
       probe \in [op : {"classifier"},
                  dao : {dao},
                  t : {NewTransactions, Classified},
                  source : [checking : PullOutcomes(dao, CheckingPool, MaxFileRows),
                            credit_card : PullOutcomes(dao, CreditCardPool, MaxFileRows - 1)]]
  /\ result = NoProbe
  /\ sections = <<>> /\ sheet = BlankSheet /\ disk = BlankSheet
  /\ transactions = NoTransactions
  /\ source = CHOOSE src \in Sources : TRUE
  /\ closed = FALSE
  /\ last = Called("init", NameOnly(""), "ok", FALSE)

\* transactions.get_transactions_for_the_period()
get_transactions_for_the_period ==
  /\ result = NoProbe
  /\ \E g \in {GetTransactionsForThePeriod(probe.t, probe.source)} :
       result' = [op |-> "get_transactions_for_the_period", err |-> g.err, t |-> g.t]
  /\ UNCHANGED <<sections, sheet, disk, transactions, source, closed, last, probe, tie_order>>

SpecClassifier == InitClassifier /\ [][get_transactions_for_the_period]_vars

-----------------------------------------------------------------------------
(* One update of a tracker, whatever its sections *)

MaxSections == 3   \* the most sections the tracker is updated with

\* Sections that overlap, that lie side by side and that span one column,
\* of both types; a section beyond the columns one letter names, and a
\* section whose rectangle holds the as-of cell and that receives no row.
UpdateSections ==
  { NewTrackerSection(a).section[1] :
      a \in { BaseArgs("Rent"),
              [BaseArgs("Gas") EXCEPT !.keywords = <<SHELL>>, !.max_row = 1, !.max_col = 2],
              [BaseArgs("Pay") EXCEPT !.trx_type = "income", !.keywords = <<KROGER>>,
                                      !.is_inverse_section = TRUE,
                                      !.min_row = MaxRow, !.min_col = 2],
              [BaseArgs("Food") EXCEPT !.keywords = <<KROGER>>, !.min_row = MaxRow,
                                       !.min_col = MaxCol],
              [BaseArgs("Far") EXCEPT !.keywords = <<SHELL>>,
                                      !.min_col = 33, !.max_col = 35],
              [BaseArgs("Mark") EXCEPT !.trx_type = "income", !.keywords = <<SHELL>>,
                                       !.max_row = AsOfRow,
                                       !.min_col = AsOfCol - 2, !.max_col = AsOfCol] } }

\* The registries of at most MaxSections of them, one per name.
Registries ==
  {secs \in SeqsUpTo(UpdateSections, MaxSections) :
     \A i, j \in 1..Len(secs) : i # j => secs[i].name # secs[j].name}

InitUpdate ==
  /\ tie_order \in TieOrders
  /\ probe \in [op : {"tracker"},
                sections : Registries,
                ws : {StaleSheet},
                t : {NoTransactions, Classified},
                source : Sources]
  /\ result = NoProbe
  /\ sections = <<>> /\ sheet = BlankSheet /\ disk = BlankSheet
  /\ transactions = NoTransactions
  /\ source = CHOOSE src \in Sources : TRUE
  /\ closed = FALSE
  /\ last = Called("init", NameOnly(""), "ok", FALSE)

\* tracker.update_tracker(), the workbook saved as it was loaded
update_tracker_once ==
  /\ result = NoProbe
  /\ \E u \in {UpdateTracker(probe.sections, probe.ws, probe.ws, probe.t, probe.source)} :
       result' = [op |-> "update_tracker", err |-> u.err, ws |-> u.ws,
                  disk |-> u.disk, t |-> u.t]
  /\ UNCHANGED <<sections, sheet, disk, transactions, source, closed, last, probe, tie_order>>

SpecUpdate == InitUpdate /\ [][update_tracker_once]_vars

-----------------------------------------------------------------------------
(* What the claims speak of *)

\* The rows a section may hold.
Capacity(s) == s.max_row - s.min_row + 1

\* The number of rows of trx whose description passes the section's filter.
Passing(s, trx) == Cardinality({i \in 1..Len(trx) : TrxFilter(s, trx[i].description)})

\* The table a section is written from.
TrxFor(s, t) == IF s.trx_type = "expense" THEN t.expenses ELSE t.income

\* Every section of the registry has room for its rows.
AllFit(secs, t) ==
  \A i \in 1..Len(secs) : Passing(secs[i], TrxFor(secs[i], t)) <= Capacity(secs[i])

\* The registry without the section of the given name.
Without(secs, name) == SelectSeq(secs, LAMBDA x : x.name # name)

AnyKeyword(s, text) == \E i \in 1..Len(s.keywords) : In(s.keywords[i], Upper(text))
AnyException(s, text) ==
  \E j \in 1..Len(s.keyword_exceptions) : In(s.keyword_exceptions[j], Upper(text))

Saved == last.op = "update_tracker" /\ last.err = "ok"

-----------------------------------------------------------------------------
(* C1 *)

\* C1: an update_tracker that fails at any step does not save the workbook:
\* the saved workbook changes only in a step that is an update_tracker ending
\* without error, and is then the worksheet of an update in which every
\* section had room for its rows and the as-of cell holds the as-of date; it
\* never holds the cleared as-of cell.
C1_FailedRefreshNeverSaves ==
  [][ /\ (~Saved' => disk' = disk)
      /\ (Saved' => /\ disk' = sheet'
                    /\ AllFit(sections', transactions')
                    /\ disk'[AsOfCell] = DateValue(transactions'.as_of_date))
      /\ disk'[AsOfCell] # NoneValue ]_vars

\* An update failed on a section too small, after an earlier one was saved:
\* the worksheet in memory is no longer the saved one.
C1_Witness ==
  /\ last.op = "update_tracker"
  /\ last.err = "InsufficientTrackerSectionSize"
  /\ disk # StaleSheet
  /\ sheet # disk

(* C2 *)

\* C2: an update_tracker that follows a successful update_tracker, with the
\* same sections and the same files, succeeds and leaves every cell of the
\* worksheet (the as-of cell included) as the first left it.
C2_RefreshIdempotent ==
  [][ (Saved /\ last'.op = "update_tracker") =>
        (last'.err = "ok" /\ sheet' = sheet /\ disk' = disk) ]_vars

\* A second successful update in a row, with rows written to the worksheet.
C2_Witness ==
  /\ Saved /\ last.again
  /\ \E c \in DOMAIN sheet : sheet[c].t = "num"

(* C3 *)

\* C3 as claimed: write_data fails with InsufficientTrackerSectionSize and
\* leaves the worksheet as it was when the rows that pass the section's filter
\* are more than max_row - min_row + 1, and does not fail when they are not.
C3_CapacityInvariant ==
  result.op = "write_data" =>
    /\ (Passing(probe.section, probe.trx) > Capacity(probe.section) =>
          /\ result.err = "InsufficientTrackerSectionSize"
          /\ result.ws = probe.ws)
    /\ (Passing(probe.section, probe.trx) <= Capacity(probe.section) =>
          result.err = "ok")

(* C4 *)

\* C4: add_section under a registered name fails with
\* TrackerSectionAlreadyExists and leaves the registry as it was; under a new
\* name (and a valid trx_type) it adds the section with the given attributes
\* and leaves the others as they were.
C4_Register ==
  [][ last'.op = "add_section" =>
        IF last'.args.name \in Names(sections)
        THEN last'.err = "TrackerSectionAlreadyExists" /\ sections' = sections
        ELSE last'.args.trx_type \in TrxTypes =>
               /\ last'.err = "ok"
               /\ Len(sections') = Len(sections) + 1
               /\ SubSeq(sections', 1, Len(sections)) = sections
               /\ sections'[Len(sections')] = NewTrackerSection(last'.args).section[1] ]_vars

\* "Rent" is registered a second time, beside another section.
C4_Witness ==
  /\ last.op = "add_section"
  /\ last.args.name = "Rent"
  /\ last.err = "TrackerSectionAlreadyExists"
  /\ Len(sections) = 2

(* C5 *)

C6_Remove ==
  [][ /\ (last'.op = "delete_section" =>
            IF last'.args.name \notin Names(sections)
            THEN last'.err = "TrackerSectionDoesNotExist" /\ sections' = sections
            ELSE /\ last'.err = "ok"
                 /\ sections' = Without(sections, last'.args.name)
                 /\ Len(sections') = Len(sections) - 1)
      /\ ((/\ last.op = "delete_section" /\ last.err = "ok"
           /\ last'.args.name = last.args.name) =>
            /\ ((last'.op = "add_section" /\ last'.args.trx_type \in TrxTypes) =>
                  last'.err = "ok")
            /\ (last'.op \in {"replace_section", "delete_section"} =>
                  last'.err = "TrackerSectionDoesNotExist")) ]_vars

\* One of two sections was removed, the one registered first.
C6_Witness ==
  /\ last.op = "delete_section"
  /\ last.err = "ok"
  /\ Len(sections) = 1
  /\ last.args.name = "Rent"

(* C7 *)

\* C7: update_tracker on an empty registry fails with EmptyTrackerError and
\* changes no cell of the worksheet, nothing of the transactions and nothing
\* of the saved workbook.
C7_EmptyRefresh ==
  [][ (last'.op = "update_tracker" /\ sections = <<>>) =>
        /\ last'.err = "EmptyTrackerError"
        /\ sheet' = sheet
        /\ transactions' = transactions
        /\ disk' = disk ]_vars

\* The update was refused after an earlier one was saved and every section
\* was removed since.
C7_Witness ==
  /\ last.op = "update_tracker"
  /\ last.err = "EmptyTrackerError"
  /\ transactions.created
  /\ disk # StaleSheet

(* C8 *)

\* C8: a non-inverse section takes a description iff a keyword occurs in the
\* upper-cased description and, when there are exceptions, no exception
\* does.  Groceries leaves out "SHELL GAS STATION", and a section without
\* keywords takes nothing.
C8_NonInverseRule ==
  LET Groceries ==
        RuleSection(<< <<"K","R","O","G","E","R">>, <<"W","H","O","L","E","F","D","S">> >>,
                    << <<"S","H","E","L","L">> >>, FALSE)
  IN /\ (result.op = "trx_filter" /\ ~probe.section.is_inverse_section) =>
           result.value =
             (/\ AnyKeyword(probe.section, probe.text)
              /\ (probe.section.keyword_exceptions # <<>> =>
                    ~AnyException(probe.section, probe.text)))
     /\ ~TrxFilter(Groceries, <<"S","H","E","L","L"," ","G","A","S"," ","S","T","A","T","I","O","N">>)
     /\ TrxFilter(Groceries, <<"K","r","o","g","e","r"," ","#","1","2">>)
     /\ (result.op = "trx_filter" /\ ~probe.section.is_inverse_section
           /\ probe.section.keywords = <<>>) => ~result.value

\* A description that holds a keyword and an exception is left out.
C8_Witness ==
  /\ result.op = "trx_filter"
  /\ ~probe.section.is_inverse_section
  /\ AnyKeyword(probe.section, probe.text)
  /\ AnyException(probe.section, probe.text)
  /\ ~result.value

(* C9 *)

C10_CaseInsensitive ==
  LET LowerChar(c) ==
        IF \E i \in 1..Len(UpperCase) : UpperCase[i] = c
        THEN LowerCase[CHOOSE i \in 1..Len(UpperCase) : UpperCase[i] = c]
        ELSE c
      Lower(text) == [i \in 1..Len(text) |-> LowerChar(text[i])]
      UpperAll(texts) == [i \in 1..Len(texts) |-> Upper(texts[i])]
      LowerAll(texts) == [i \in 1..Len(texts) |-> Lower(texts[i])]
  IN result.op = "trx_filter" =>
       /\ result.value = TrxFilter(probe.section, Upper(probe.text))
       /\ result.value = TrxFilter(probe.section, Lower(probe.text))
       /\ result.value = TrxFilter([probe.section EXCEPT !.keywords = UpperAll(@)], probe.text)
       /\ result.value = TrxFilter([probe.section EXCEPT !.keywords = LowerAll(@)], probe.text)
       /\ result.value =
            TrxFilter([probe.section EXCEPT !.keyword_exceptions = UpperAll(@)], probe.text)
       /\ result.value =
            TrxFilter([probe.section EXCEPT !.keyword_exceptions = LowerAll(@)], probe.text)
       /\ HoldsNoKeyword(probe.section.keywords, probe.text)
            = HoldsNoKeyword(UpperAll(probe.section.keywords), Lower(probe.text))

-----------------------------------------------------------------------------
(* What the claims on the classifier speak of *)

\* How many times x occurs in a sequence.
Count(x, seq) == Cardinality({i \in 1..Len(seq) : seq[i] = x})

\* A description names a credit-card payment.
PaysOffCc(text) ==
  \E i \in 1..Len(CREDIT_CARD_KEYWORDS) : In(CREDIT_CARD_KEYWORDS[i], Upper(text))

\* The rows of a frame with the flag, as indices.
Flagged(rows, flag) == {i \in 1..Len(rows) : rows[i].flag = flag}

\* The classifier was called on two frames and returned.
Classifying == result.op = "get_transactions_for_the_period"
RawChecking == probe.source.checking.frame.rows
RawCreditCard == probe.source.credit_card.frame.rows

\* A sequence of records ascends by posting date.
Ascending(seq) ==
  \A i, j \in 1..Len(seq) : i < j => seq[i].posting_date <= seq[j].posting_date

(* C11 *)

\* C11: after a classification that succeeded, every record occurs in the
\* expenses as many times as among the checking rows flagged DEBIT that name
\* no credit-card payment and the credit-card rows flagged Sale together,
\* and in the income as many times as among the checking rows flagged
\* CREDIT: each such raw row is in one of income, expenses and excluded, and
\* a row with another flag is in neither.
C11_Completeness ==
  (Classifying /\ result.err = "ok") =>
    LET Records == {Project(RawChecking[i]) : i \in 1..Len(RawChecking)}
                     \cup {Project(RawCreditCard[i]) : i \in 1..Len(RawCreditCard)}
                     \cup {result.t.expenses[i] : i \in 1..Len(result.t.expenses)}
                     \cup {result.t.income[i] : i \in 1..Len(result.t.income)}
        Debits(x) == {i \in Flagged(RawChecking, "DEBIT") : Project(RawChecking[i]) = x}
        Excluded(x) == {i \in Debits(x) : PaysOffCc(x.description)}
        Credits(x) == {i \in Flagged(RawChecking, "CREDIT") : Project(RawChecking[i]) = x}
        Sales(x) == {i \in Flagged(RawCreditCard, "Sale") : Project(RawCreditCard[i]) = x}
    IN \A x \in Records :
         /\ Count(x, result.t.expenses)
              = Cardinality(Debits(x)) - Cardinality(Excluded(x)) + Cardinality(Sales(x))
         /\ Count(x, result.t.income) = Cardinality(Credits(x))

\* A classification of a withdrawal made twice, a payment of the credit
\* card, a sale and a credit-card row that is no sale.
C11_Witness ==
  /\ Classifying /\ result.err = "ok"
  /\ \E i, j \in Flagged(RawChecking, "DEBIT") :
       i # j /\ RawChecking[i] = RawChecking[j] /\ ~PaysOffCc(RawChecking[i].description)
  /\ \E i \in Flagged(RawChecking, "DEBIT") : PaysOffCc(RawChecking[i].description)
  /\ Flagged(RawCreditCard, "Sale") # {}
  /\ Flagged(RawCreditCard, "Payment") # {}
  /\ Len(result.t.expenses) = 3

(* C12 *)

\* Rows in ascending order of posting date, rows of equal date in the order
\* they had: the rows of the earliest date, then the others likewise.
RECURSIVE InDateOrder(_)
InDateOrder(rows) ==
  IF rows = <<>> THEN <<>>
  ELSE LET d == CHOOSE x \in {rows[i].posting_date : i \in 1..Len(rows)} :
                  \A i \in 1..Len(rows) : x <= rows[i].posting_date
       IN SelectSeq(rows, LAMBDA r : r.posting_date = d)
            \o InDateOrder(SelectSeq(rows, LAMBDA r : r.posting_date # d))

\* The projections of the rows of a sequence.
Projected(rows) == [i \in 1..Len(rows) |-> Project(rows[i])]

\* C12 as claimed: the expenses are the checking rows flagged DEBIT that name
\* no credit-card payment, followed by the credit-card rows flagged Sale,
\* put in ascending order of posting date, rows of equal date keeping the
\* order they had.
C12_ExpensesStable ==
  (Classifying /\ result.err = "ok") =>
    result.t.expenses =
      InDateOrder(Projected(
        SelectSeq(RawChecking, LAMBDA r : r.flag = "DEBIT" /\ ~PaysOffCc(r.description))
          \o SelectSeq(RawCreditCard, LAMBDA r : r.flag = "Sale")))

(* C13 *)

\* C13 as claimed: whatever DAO delivers the rows, the income is the checking
\* rows flagged CREDIT (those naming a credit-card payment included, and no
\* credit-card row) in ascending order of posting date, rows of equal date
\* keeping the order they had.
C13_IncomeAscending ==
  (Classifying /\ result.err = "ok") =>
    result.t.income =
      InDateOrder(Projected(SelectSeq(RawChecking, LAMBDA r : r.flag = "CREDIT")))

(* C14 *)

\* C14: after a classification that succeeded on the rows the flat-file DAO
\* returned, none of the two frames empty, the as-of date is the latest
\* posting date of all rows of both frames, whatever their flag.
C14_AsOfDate ==
  (Classifying /\ result.err = "ok" /\ probe.dao = "FlatFileTransactionDAO") =>
    LET dates == {RawChecking[i].posting_date : i \in 1..Len(RawChecking)}
                   \cup {RawCreditCard[i].posting_date : i \in 1..Len(RawCreditCard)}
    IN /\ RawChecking # <<>> /\ RawCreditCard # <<>>
       /\ result.t.as_of_date \in dates
       /\ \A d \in dates : d <= result.t.as_of_date

\* The latest row is a credit-card payment, which is in neither the income
\* nor the expenses, and it is later than every checking row.
C14_Witness ==
  /\ Classifying /\ result.err = "ok" /\ probe.dao = "FlatFileTransactionDAO"
  /\ RawCreditCard[Len(RawCreditCard)].flag = "Payment"
  /\ result.t.as_of_date = RawCreditCard[Len(RawCreditCard)].posting_date
  /\ Len(RawChecking) = MaxFileRows
  /\ \A i \in 1..Len(RawChecking) : RawChecking[i].posting_date < result.t.as_of_date
  /\ \A i \in 1..Len(result.t.expenses) : result.t.expenses[i].posting_date < result.t.as_of_date

(* C15 *)

\* C15 as claimed: when one of the two frames has no rows and the other has,
\* the classification succeeds, with the latest posting date of the other
\* frame as as-of date; when both have none it fails.  The checking rows
\* DEBIT AMAZON -20, DEBIT PAYMENT THANK YOU -500, CREDIT PAYROLL 2000 with
\* no credit-card row give the expenses AMAZON -20 and the income PAYROLL
\* 2000, without error.
C15_EmptySource ==
  LET scenario ==
        GetTransactionsForThePeriod(
          NewTransactions,
          [checking |-> Pulled(<< Row("DEBIT", 1, <<"A","M","A","Z","O","N">>, -20),
                                  Row("DEBIT", 2, <<"P","A","Y","M","E","N","T"," ","T","H","A","N","K"," ","Y","O","U">>, -500),
                                  Row("CREDIT", 3, <<"P","A","Y","R","O","L","L">>, 2000) >>),
           credit_card |-> Pulled(<<>>)])
      Latest(rows) == CHOOSE d \in {rows[i].posting_date : i \in 1..Len(rows)} :
                        \A i \in 1..Len(rows) : rows[i].posting_date <= d
  IN /\ scenario.err = "ok"
     /\ Len(scenario.t.expenses) = 1 /\ scenario.t.expenses[1].amount = -20
     /\ Len(scenario.t.income) = 1 /\ scenario.t.income[1].amount = 2000
     /\ (/\ Classifying
         /\ ~probe.source.checking.pull_error /\ ~probe.source.credit_card.pull_error
         /\ probe.source.checking.frame.has_columns
         /\ probe.source.credit_card.frame.has_columns) =>
          /\ (RawChecking = <<>> /\ RawCreditCard # <<>>) =>
                (result.err = "ok" /\ result.t.as_of_date = Latest(RawCreditCard))
          /\ (RawChecking # <<>> /\ RawCreditCard = <<>>) =>
                (result.err = "ok" /\ result.t.as_of_date = Latest(RawChecking))
          /\ (RawChecking = <<>> /\ RawCreditCard = <<>>) => result.err # "ok"

(* C16 *)

\* C16 as claimed: a get_transactions_for_the_period that fails leaves the
\* income, the expenses and the as-of date as they were before the call.
C16_AllOrNothing ==
  (Classifying /\ result.err # "ok") =>
    /\ result.t.income = probe.t.income
    /\ result.t.expenses = probe.t.expenses
    /\ result.t.as_of_date = probe.t.as_of_date

(* C17 *)

\* C17 as claimed: once close_tracker has been called, no later call changes
\* the registry of sections, a cell of the worksheet or the saved workbook.
C17_ClosedIsTerminal ==
  [][ closed => (sections' = sections /\ sheet' = sheet /\ disk' = disk) ]_vars

(* C18 *)

\* C18 as claimed: an update_tracker that fails ends in a typed failure its
\* caller can handle, a TrackerError or the TransactionDataPullError of the
\* DAO; none ends in the exit of the process raised inside the classifier.
C18_TypedFailures ==
  last.op = "update_tracker" =>
    last.err \in {"ok", "EmptyTrackerError", "InsufficientTrackerSectionSize",
                  "TransactionDataPullError"}

(* C19 *)

\* The update of the probe was made.
Updating == result.op = "update_tracker" /\ probe.sections # <<>>

\* What a cell of the worksheet held before the update (a cell the
\* worksheet never held reads as empty).
Before(c) == IF c \in DOMAIN probe.ws THEN probe.ws[c] ELSE NoneValue

\* The rows of the section's type that pass its filter, after the update.
RowsOf(s) == SelectSeq(TrxFor(s, result.t), LAMBDA r : TrxFilter(s, r.description))

\* The first section without room for its rows (one past the last section
\* when all have room).
FirstOverflow ==
  LET over == {i \in 1..Len(probe.sections) :
                 Len(RowsOf(probe.sections[i])) > Capacity(probe.sections[i])}
  IN IF over = {} THEN Len(probe.sections) + 1
     ELSE CHOOSE i \in over : \A j \in over : i <= j

\* The cells a section writes its rows to, and what it leaves in each: the
\* amount in the last column, the description next to the first, the date
\* in the first.
WrittenBy(s) ==
  {c \in ((s.min_row)..(s.min_row + Len(RowsOf(s)) - 1))
            \X {ColumnOf(s.min_col), ColumnOf(s.min_col + 1), ColumnOf(s.max_col)} : TRUE}
LeftBy(s, c) ==
  LET row == RowsOf(s)[c[1] - s.min_row + 1]
  IN IF c[2] = ColumnOf(s.max_col) THEN NumValue(row.amount)
     ELSE IF c[2] = ColumnOf(s.min_col + 1) THEN TextValue(row.description)
     ELSE DateValue(row.posting_date)

\* C19: update_tracker clears, then classifies, then writes the as-of date
\* of that classification, then writes the sections in order, each from the
\* table of its type, then saves.  A classification that fails leaves the
\* as-of cell and every cell of every section empty.  One that succeeds
\* leaves the as-of date of the rows just pulled in the as-of cell, the
\* sections before the first overflow written (a cell written twice holds
\* what the later section left), every other cell of a section empty and
\* every other cell as it was.  The workbook is saved, as the worksheet then
\* is, only when no section overflowed.
C19_RefreshOrdering ==
  Updating =>
    LET secs == probe.sections
        k == FirstOverflow
        Writers(c) == {i \in 1..(k - 1) : c \in WrittenBy(secs[i])}
        LastWriter(c) == CHOOSE i \in Writers(c) : \A j \in Writers(c) : j <= i
        InSection(c) == \E i \in 1..Len(secs) : c \in Rect(secs[i])
    IN IF result.err \in {"SystemExit", "IndexError"}
       THEN /\ result.ws[AsOfCell] = NoneValue
            /\ \A c \in DOMAIN result.ws :
                 result.ws[c] = IF InSection(c) \/ c = AsOfCell THEN NoneValue
                                ELSE probe.ws[c]
            /\ result.disk = probe.ws
       ELSE /\ result.t.checking_acct_trx = probe.source.checking.frame
            /\ result.t.credit_card_trx = probe.source.credit_card.frame
            /\ result.err = IF k > Len(secs) THEN "ok"
                            ELSE "InsufficientTrackerSectionSize"
            /\ \A c \in DOMAIN result.ws :
                 result.ws[c] =
                   IF Writers(c) # {} THEN LeftBy(secs[LastWriter(c)], c)
                   ELSE IF c = AsOfCell THEN DateValue(result.t.as_of_date)
                   ELSE IF InSection(c) THEN NoneValue
                   ELSE probe.ws[c]
            /\ \A i \in 1..(k - 1) : WrittenBy(secs[i]) \subseteq DOMAIN result.ws
            /\ result.disk = IF k > Len(secs) THEN result.ws ELSE probe.ws

\* The second of three sections overflowed: the first holds its rows, the
\* third, apart from them, is empty where it held earlier entries, the
\* as-of cell holds the new date and the workbook is not saved.
C19_Witness ==
  /\ Updating
  /\ result.err = "InsufficientTrackerSectionSize"
  /\ Len(probe.sections) = 3 /\ FirstOverflow = 2
  /\ RowsOf(probe.sections[1]) # <<>>
  /\ Rect(probe.sections[3]) \ WrittenBy(probe.sections[1]) # {}
  /\ \A c \in Rect(probe.sections[3]) \ WrittenBy(probe.sections[1]) :
       result.ws[c] = NoneValue /\ Before(c) # NoneValue
  /\ result.ws[AsOfCell] = DateValue(result.t.as_of_date)
  /\ result.disk = probe.ws /\ result.disk # result.ws

(* C20 *)

\* C20: after clear_contents every cell (r, c) of the worksheet with
\* min_row <= r <= max_row and min_col <= c <= max_col is empty, and every
\* other cell holds what it held before.
C20_ClearFrame ==
  result.op = "clear_contents" =>
    LET s == probe.section
        Inside(c) == /\ s.min_row <= c[1] /\ c[1] <= s.max_row
                     /\ s.min_col <= c[2] /\ c[2] <= s.max_col
    IN /\ \A r \in s.min_row..s.max_row, c \in s.min_col..s.max_col :
            <<r, c>> \in DOMAIN result.ws /\ result.ws[<<r, c>>] = NoneValue
       /\ \A c \in DOMAIN result.ws :
            IF Inside(c) THEN result.ws[c] = NoneValue
            ELSE c \in DOMAIN probe.ws /\ result.ws[c] = probe.ws[c]
       /\ DOMAIN probe.ws \subseteq DOMAIN result.ws

\* A section inside a worksheet of earlier entries was cleared: its cells
\* are empty, and the cells around it, with the as-of cell, hold the entries.
C20_Witness ==
  /\ result.op = "clear_contents"
  /\ probe.ws = StaleSheet
  /\ probe.section.min_row = MaxRow /\ probe.section.max_row = MaxRow
  /\ probe.section.min_col = 2 /\ probe.section.max_col = MaxCol
  /\ result.ws[<<MaxRow, MaxCol>>] = NoneValue
  /\ result.ws[<<MaxRow, 1>>] = StaleSheet[<<MaxRow, 1>>]
  /\ result.ws[<<1, 2>>] = StaleSheet[<<1, 2>>]
  /\ result.ws[AsOfCell] = StaleSheet[AsOfCell]

-----------------------------------------------------------------------------
(* Claims on the layout, the frame and the content of what is written *)

\* write_data has run on the probed section and returned.
WriteSucceeded == result.op = "write_data" /\ result.err = "ok"

\* The rows of the probe that pass the probed section's filter, in order.
Surviving == SelectSeq(probe.trx, LAMBDA r : TrxFilter(probe.section, r.description))

\* The worksheet after the call holds v in the cell of that row and column.
Holds(row, col, v) ==
  /\ <<row, col>> \in DOMAIN result.ws
  /\ result.ws[<<row, col>>] = v

\* C21: when write_data returns, row min_row + i of the worksheet holds the
\* posting date of the i-th surviving row in column min_col, its description
\* in column min_col + 1 and its amount in column max_col, for every i.
C21_WriteLayout ==
  WriteSucceeded =>
    \A i \in 1..Len(Surviving) :
      LET s == probe.section
          row == s.min_row + i - 1
      IN /\ Holds(row, s.min_col, DateValue(Surviving[i].posting_date))
         /\ Holds(row, s.min_col + 1, TextValue(Surviving[i].description))
         /\ Holds(row, s.max_col, NumValue(Surviving[i].amount))

\* C22: update_tracker, however it ends, changes only cells inside the
\* rectangle of a registered section and the as-of cell, whatever the
\* bounds of the registered sections are.
C22_RefreshFrame ==
  result.op = "update_tracker" =>
    \A c \in DOMAIN result.ws :
      \/ result.ws[c] = Before(c)
      \/ c = AsOfCell
      \/ \E i \in 1..Len(probe.sections) : c \in Rect(probe.sections[i])

\* The rectangles of the registered sections are pairwise disjoint and
\* each is at least three columns wide.
DisjointAndWide(secs) ==
  /\ \A i, j \in 1..Len(secs) : i # j => Rect(secs[i]) \cap Rect(secs[j]) = {}
  /\ \A i \in 1..Len(secs) : secs[i].max_col >= secs[i].min_col + 2

\* What a cell of the section's rectangle holds when the section holds
\* exactly its rows: the date, the description and the amount of the row
\* in the first, the second and the last column, nothing elsewhere.
HeldBy(s, c) ==
  LET idx == c[1] - s.min_row + 1
  IN IF idx > Len(RowsOf(s)) THEN NoneValue
     ELSE IF c[2] = s.min_col THEN DateValue(RowsOf(s)[idx].posting_date)
     ELSE IF c[2] = s.min_col + 1 THEN TextValue(RowsOf(s)[idx].description)
     ELSE IF c[2] = s.max_col THEN NumValue(RowsOf(s)[idx].amount)
     ELSE NoneValue

\* C23: an update_tracker that succeeds on sections with pairwise disjoint
\* rectangles, each at least three columns wide, leaves each section with
\* exactly its filtered rows in its first rows and every other cell of its
\* rectangle empty, whatever the worksheet held before.
C23_PostRefreshContent ==
  (Updating /\ result.err = "ok" /\ DisjointAndWide(probe.sections)) =>
    \A i \in 1..Len(probe.sections) :
      \A c \in Rect(probe.sections[i]) :
        result.ws[c] = HeldBy(probe.sections[i], c)

-----------------------------------------------------------------------------
(* The sections main registers, and the sections a record is written to *)

\* The lists a keyword option of the configuration is probed with: no
\* keyword, the empty keyword (an option left empty), one keyword, two.
ConfigLists ==
  {<<>>, << <<>> >>, << <<"K">> >>, << <<"S">> >>, << <<"K">>, <<"S">> >>}

Config(primary, rent, grocery, gas, fixed) ==
  [PRIMARY_INCOME_KEYWORDS |-> primary,
   RENT_UTIL_KEYWORDS |-> rent,
   GROCERY_KEYWORDS |-> grocery,
   GAS_KEYWORDS |-> gas,
   FIXED_EXPENSE_KEYWORDS |-> fixed]

\* One call of add_section by main.
MainCall(name, keywords, min_row, max_row, min_col, max_col, trx_type, exceptions_given, keyword_exceptions, is_inverse_section) ==
  [name |-> name, trx_type |-> trx_type, keywords |-> keywords,
   min_row |-> min_row, max_row |-> max_row, min_col |-> min_col, max_col |-> max_col,
   exceptions_given |-> exceptions_given, keyword_exceptions |-> keyword_exceptions,
   is_inverse_section |-> is_inverse_section]

\* The calls of add_section main makes, in order.
MainCalls(cfg) ==
  << MainCall("Primary Income", cfg.PRIMARY_INCOME_KEYWORDS, 7, 8, 2, 8,
              "income", FALSE, <<>>, FALSE),
     MainCall("Other Income", cfg.PRIMARY_INCOME_KEYWORDS, 12, 166, 2, 8,
              "income", FALSE, <<>>, TRUE),
     MainCall("Rent & Utilities", cfg.RENT_UTIL_KEYWORDS, 7, 14, 10, 16,
              "expense", FALSE, <<>>, FALSE),
     MainCall("Groceries", cfg.GROCERY_KEYWORDS, 18, 37, 10, 16,
              "expense", TRUE, cfg.GAS_KEYWORDS, FALSE),
     MainCall("Gas", cfg.GAS_KEYWORDS, 41, 50, 10, 16,
              "expense", FALSE, <<>>, FALSE),
     MainCall("Miscellaneous Fixed Expenses", cfg.FIXED_EXPENSE_KEYWORDS, 54, 63, 10, 16,
              "expense", FALSE, <<>>, FALSE),
     MainCall("Other Expenses",
              cfg.RENT_UTIL_KEYWORDS \o cfg.GROCERY_KEYWORDS \o cfg.GAS_KEYWORDS
                \o cfg.FIXED_EXPENSE_KEYWORDS,
              67, 166, 10, 16, "expense", FALSE, <<>>, TRUE) >>

\* The registry after the first n of these calls.
RECURSIVE Registered(_, _)
Registered(cfg, n) ==
  IF n = 0 THEN <<>> ELSE AddSection(Registered(cfg, n - 1), MainCalls(cfg)[n]).secs

\* The sections update_tracker writes a record of the given type and
\* description to: those of its type whose filter it passes.
WrittenTo(secs, trx_type, text) ==
  {secs[i].name : i \in {j \in 1..Len(secs) :
                           secs[j].trx_type = trx_type /\ TrxFilter(secs[j], text)}}

\* An income record with every list of income keywords, an expense record
\* with every choice of the four lists of expense keywords.
MainProbes ==
  {[op |-> "main", config |-> Config(p, <<>>, <<>>, <<>>, <<>>),
    trx_type |-> "income", text |-> x] : p \in ConfigLists, x \in Texts}
  \cup
  {[op |-> "main", config |-> Config(<<>>, l[1], l[2], l[3], l[4]),
    trx_type |-> "expense", text |-> x] :
      l \in ConfigLists \X ConfigLists \X ConfigLists \X ConfigLists, x \in Texts}

InitMain ==
  /\ probe \in MainProbes
  /\ result = NoProbe
  /\ sections = <<>> /\ sheet = BlankSheet /\ disk = BlankSheet
  /\ transactions = NoTransactions
  /\ source = (CHOOSE src \in Sources : TRUE)
  /\ closed = FALSE
  /\ last = Called("init", NameOnly(""), "ok", FALSE)
  /\ tie_order = "kept"

\* main registers its sections; the record is filtered by each section of
\* its type.
main ==
  /\ result = NoProbe
  /\ \E secs \in {Registered(probe.config, 7)} :
       result' = [op |-> "main", sections |-> secs,
                  written_to |-> WrittenTo(secs, probe.trx_type, probe.text)]
  /\ UNCHANGED <<sections, sheet, disk, transactions, source, closed, last, probe, tie_order>>

SpecMain == InitMain /\ [][main]_vars

\* C24: with the two income sections main registers, an income record is
\* written to exactly one of them, whatever the primary income keywords and
\* the description are.
C24_IncomePartition ==
  (result.op = "main" /\ probe.trx_type = "income") =>
    \/ result.written_to = {"Primary Income"}
    \/ result.written_to = {"Other Income"}

\* An income record that holds one of two keywords goes to Primary Income,
\* and one that holds neither goes to Other Income.
C24_Witness ==
  /\ result.op = "main" /\ probe.trx_type = "income"
  /\ probe.config.PRIMARY_INCOME_KEYWORDS = << <<"K">>, <<"S">> >>
  /\ probe.text = <<"s">>
  /\ result.written_to = {"Primary Income"}

\* C25: with the five expense sections main registers, an expense record is
\* written to at least one of them, whatever the four keyword lists and the
\* description are.
C25_ExpenseCoverage ==
  (result.op = "main" /\ probe.trx_type = "expense") =>
    /\ result.written_to # {}
    /\ result.written_to \subseteq
         {"Rent & Utilities", "Groceries", "Gas",
          "Miscellaneous Fixed Expenses", "Other Expenses"}

\* An expense record that holds a grocery keyword and a gas keyword is kept
\* out of Groceries and out of Other Expenses, and goes to Gas.
C25_Witness ==
  /\ result.op = "main" /\ probe.trx_type = "expense"
  /\ probe.config.GROCERY_KEYWORDS = << <<"K">> >>
  /\ probe.config.GAS_KEYWORDS = << <<"S">> >>
  /\ probe.text = <<"k", "s">>
  /\ result.written_to = {"Gas"}

====
